---- MODULE Spec2Model ----
(***************************************************************************)
(* PyAPI Studio: the variable resolver (src/core/variable_resolver.py),    *)
(* the request path of the main window (src/ui/main_window.py), the        *)
(* collections of the database and the history panel.                      *)
(*                                                                         *)
(* A Python str is modelled as a sequence of one-character strings, so     *)
(* "{{a}}" is <<"{","{","a","}","}">>.  A Python dict is a function whose  *)
(* DOMAIN is its key set.  None is the model value NoneValue.              *)
(***************************************************************************)
EXTENDS Integers, Sequences, FiniteSets, TLC

VARIABLES
    globalVars,     \* VariableResolver._global_variables : key -> Variable
    envVars,        \* VariableResolver._environment_variables : key -> Variable
    runtimeVars,    \* VariableResolver._runtime_variables : key -> str
    text,           \* argument(s) of the resolver call under consideration
    op,             \* the operation on the resolver or on its dicts that ran last
    ret,            \* what that operation returned
    raised,         \* the exception that operation ended in, "" when none
    url,            \* UrlBar.url, the text of the URL input
    headers,        \* rows of RequestPanel.headers_table
    params,         \* rows of RequestPanel.params_table
    body,           \* RequestPanel.body_editor.text
    isSending,      \* MainWindow._is_sending
    barSending,     \* UrlBar._is_sending
    dispatched,     \* the RequestConfigs handed to executor.execute, not yet finished
    store,          \* the variable records of the database
    cancelRequested, \* UrlBar.cancel_requested was emitted for the request in flight
    sent,           \* the keyword arguments execute handed to client.request
    viewer,         \* what ResponseViewer.status_bar shows
    aliased,        \* the mappings of the resolver that are a dict a caller passed in
    collections,    \* table collections : id -> parent_id
    requests,       \* table requests : id -> collection_id
    treeCollections, \* the CollectionItems of CollectionTree.tree : id -> parent item
    treeRequests,   \* the RequestItems of CollectionTree.tree : id -> parent item
    historyStore,   \* table history, in order of insertion
    historyPanel    \* the items of HistoryPanel.list_widget, top first

resolverVars == <<globalVars, envVars, runtimeVars>>
\* op first: two calls of one operation have arguments and results of one kind
callVars == <<op, text, ret, raised>>
windowVars ==
    <<url, headers, params, body, isSending, barSending, dispatched, store,
      cancelRequested, sent, viewer>>
dataVars ==
    <<collections, requests, treeCollections, treeRequests, historyStore,
      historyPanel>>
vars == <<resolverVars, callVars, windowVars, aliased, dataVars>>

\* None: a sequence that is no str of the model (its one element is no character)
NoneValue == <<"None">>

\* the values of raised
NoException == ""
TypeError == "TypeError"

(***************************************************************************)
(* Bounds of the model.                                                    *)
(***************************************************************************)
\* longest input text, counted in parts (see Parts)
MaxParts == 4
\* most whitespace written on one side of a name inside a token
MaxPad == 1
\* most rows the user adds to the headers table or to the params table
MaxRows == 1

(***************************************************************************)
(* Strings.                                                                *)
(***************************************************************************)
LB == "{"
RB == "}"
SP == " "

\* str.strip() removes leading and trailing whitespace
IsSpace(c) == c = SP

RECURSIVE LStrip(_)
LStrip(s) ==
    IF s = <<>> THEN s
    ELSE IF IsSpace(Head(s)) THEN LStrip(Tail(s)) ELSE s

RECURSIVE RStrip(_)
RStrip(s) ==
    IF s = <<>> THEN s
    ELSE IF IsSpace(s[Len(s)]) THEN RStrip(SubSeq(s, 1, Len(s) - 1)) ELSE s

strip(s) == RStrip(LStrip(s))

\* Variable(key, value): is_secret and environment_id keep their defaults
Variable(k, v) == [key |-> k, value |-> v, is_secret |-> FALSE]

(***************************************************************************)
(* VARIABLE_PATTERN = re.compile(r'\{\{([^}]+)\}\}')                       *)
(***************************************************************************)
\* mutant of RunEnd: the run of the pattern \{\{(.+?)\}\}, which ends where
\* the first "}}" begins, so that a single "}" may stand inside it
RECURSIVE RunEnd_Lazy(_, _)
RunEnd_Lazy(s, j) ==
    IF j > Len(s) THEN j
    ELSE IF s[j] = RB /\ j + 1 <= Len(s) /\ s[j + 1] = RB THEN j
    ELSE RunEnd_Lazy(s, j + 1)

\* end of the greedy run [^}]+ that starts at j: first index >= j holding "}"
RECURSIVE RunEnd(_, _)
RunEnd(s, j) ==
    IF j > Len(s) THEN j
    ELSE IF s[j] = RB THEN j ELSE RunEnd(s, j + 1)

\* the pattern matches at position i (the run is greedy and holds no "}",
\* so the only candidate for the closing "}}" is right after the whole run)
MatchAt(s, i) ==
    /\ i + 1 <= Len(s)
    /\ s[i] = LB
    /\ s[i + 1] = LB
    /\ RunEnd(s, i + 2) > i + 2
    /\ RunEnd(s, i + 2) + 1 <= Len(s)
    /\ s[RunEnd(s, i + 2)] = RB
    /\ s[RunEnd(s, i + 2) + 1] = RB

\* match.group(1) and match.end() (as the next 1-based index) of a match at i
Group1(s, i) == SubSeq(s, i + 2, RunEnd(s, i + 2) - 1)

\* mutant of MatchEnd: the match ends one character early
MatchEnd_OffByOne(s, i) == RunEnd(s, i + 2) + 1

MatchEnd(s, i) == RunEnd(s, i + 2) + 2

(***************************************************************************)
(* VariableResolver                                                        *)
(***************************************************************************)
\* mutant of get_value: the global mapping consulted before the environment
get_value_GlobalFirst(var_name) ==
    IF var_name \in DOMAIN runtimeVars THEN runtimeVars[var_name]
    ELSE IF var_name \in DOMAIN globalVars THEN globalVars[var_name].value
    ELSE IF var_name \in DOMAIN envVars THEN envVars[var_name].value
    ELSE <<LB, LB>> \o var_name \o <<RB, RB>>

\* mutant of get_value: the f-string of the fallback has a brace pair too
\* many, so that an unresolved name comes back wrapped in "{{{" and "}}}"
get_value_Rewrapped(var_name) ==
    IF var_name \in DOMAIN runtimeVars THEN runtimeVars[var_name]
    ELSE IF var_name \in DOMAIN envVars THEN envVars[var_name].value
    ELSE IF var_name \in DOMAIN globalVars THEN globalVars[var_name].value
    ELSE <<LB, LB, LB>> \o var_name \o <<RB, RB, RB>>

\* mutant of _get_value: the environment mapping is looked at before the
\* runtime mapping
get_value_EnvironmentFirst(var_name) ==
    IF var_name \in DOMAIN envVars THEN envVars[var_name].value
    ELSE IF var_name \in DOMAIN runtimeVars THEN runtimeVars[var_name]
    ELSE IF var_name \in DOMAIN globalVars THEN globalVars[var_name].value
    ELSE <<LB, LB>> \o var_name \o <<RB, RB>>

\* _get_value: runtime, then environment, then global, else "{{var_name}}"
get_value(var_name) ==
    IF var_name \in DOMAIN runtimeVars THEN runtimeVars[var_name]
    ELSE IF var_name \in DOMAIN envVars THEN envVars[var_name].value
    ELSE IF var_name \in DOMAIN globalVars THEN globalVars[var_name].value
    ELSE <<LB, LB>> \o var_name \o <<RB, RB>>

\* mutant of replacer: the captured name looked up without strip()
replacer_NoStrip(group1) == get_value(group1)

\* resolve.replacer
replacer(group1) == get_value(strip(group1))

\* mutant of Sub: the value put in is scanned again (recursive expansion)
RECURSIVE Sub_Rescan(_, _)
Sub_Rescan(s, i) ==
    IF i > Len(s) THEN <<>>
    ELSE IF MatchAt(s, i)
         THEN LET v == replacer(Group1(s, i))
              IN (IF v = <<LB, LB>> \o strip(Group1(s, i)) \o <<RB, RB>>
                  THEN v ELSE Sub_Rescan(v, 1))
                 \o Sub_Rescan(s, MatchEnd(s, i))
    ELSE <<s[i]>> \o Sub_Rescan(s, i + 1)

\* VARIABLE_PATTERN.sub(replacer, text): leftmost non-overlapping matches,
\* each replaced by replacer's result, which is not scanned again
RECURSIVE Sub(_, _)
Sub(s, i) ==
    IF i > Len(s) THEN <<>>
    ELSE IF MatchAt(s, i) THEN replacer(Group1(s, i)) \o Sub(s, MatchEnd(s, i))
    ELSE <<s[i]>> \o Sub(s, i + 1)

resolve(t) ==
    IF t = NoneValue \/ t = <<>> THEN t ELSE Sub(t, 1)

\* VARIABLE_PATTERN.findall(text): group 1 of every match, in order
RECURSIVE FindAll(_, _)
FindAll(s, i) ==
    IF i > Len(s) THEN <<>>
    ELSE IF MatchAt(s, i) THEN <<Group1(s, i)>> \o FindAll(s, MatchEnd(s, i))
    ELSE FindAll(s, i + 1)

Range(f) == {f[x] : x \in DOMAIN f}

\* mutant of get_unresolved_variables: findall on the text as given
get_unresolved_variables_OfInput(t) == Range(FindAll(t, 1))

\* the int 42, a value that is no str (its one element is no character)
Int42 == <<"42">>

\* isinstance(value, str)
IsStr(v) == v # NoneValue /\ v # Int42

\* mutant of resolve_dict: an entry whose value is no str is left out
resolve_dict_StrOnly(data) ==
    [k \in {x \in DOMAIN data : IsStr(data[x])} |-> resolve(data[k])]

\* mutant of resolve_dict: the values are copied as they are
resolve_dict_Copy(data) == [k \in DOMAIN data |-> data[k]]

\* resolve_dict: every str value resolved, any other value and every key kept
resolve_dict(data) ==
    [k \in DOMAIN data |-> IF IsStr(data[k]) THEN resolve(data[k]) ELSE data[k]]

\* get_unresolved_variables: list(set(findall(resolve(text)))), a list of
\* distinct names in no fixed order, kept as the set of its elements
get_unresolved_variables(t) == Range(FindAll(resolve(t), 1))

\* VARIABLE_PATTERN.findall(resolved) raises TypeError ("expected string or
\* bytes-like object") when resolved is no str; resolve hands None back
findall_raises(t) == ~IsStr(resolve(t))

\* mutant of validate: the flag tells that names are left
validate_Negated(t) ==
    LET unresolved == get_unresolved_variables(t)
    IN <<Cardinality(unresolved) # 0, unresolved>>

\* validate: (len(unresolved) == 0, unresolved)
validate(t) ==
    LET unresolved == get_unresolved_variables(t)
    IN <<Cardinality(unresolved) = 0, unresolved>>

\* dict.update, and result[key] = ... in a loop over the items of u
DictUpdate(d, u) ==
    [x \in DOMAIN d \cup DOMAIN u |-> IF x \in DOMAIN u THEN u[x] ELSE d[x]]

ValuesOf(variables) == [k \in DOMAIN variables |-> variables[k].value]

\* mutant of get_all_variables: the environment values written last
get_all_variables_EnvironmentLast ==
    DictUpdate(DictUpdate(ValuesOf(globalVars), runtimeVars), ValuesOf(envVars))

\* get_all_variables: the global values, overwritten by the environment
\* values, overwritten by the runtime values
get_all_variables ==
    DictUpdate(DictUpdate(ValuesOf(globalVars), ValuesOf(envVars)), runtimeVars)

(***************************************************************************)
(* Inputs.                                                                 *)
(***************************************************************************)
Str_a == <<"a">>
Str_b == <<"b">>
Str_ra == <<RB, "a">>
Token(name) == <<LB, LB>> \o name \o <<RB, RB>>

RECURSIVE Spaces(_)
Spaces(n) == IF n = 0 THEN <<>> ELSE <<SP>> \o Spaces(n - 1)

\* "{{" + l spaces + name + r spaces + "}}"
PaddedToken(name, l, r) == Token(Spaces(l) \o name \o Spaces(r))

\* an input text is a concatenation of at most MaxParts of these
Parts == {<<LB>>, <<RB>>, <<SP>>, Str_a, <<LB, LB>>, <<RB, RB>>, Token(Str_b)}

RECURSIVE TextsOf(_)
TextsOf(n) ==
    IF n = 0 THEN {<<>>}
    ELSE LET T == TextsOf(n - 1) IN T \cup {t \o p : t \in T, p \in Parts}

Texts == TextsOf(MaxParts)

\* the flat mapping handed to resolve_dict for the text t: t as the value of
\* the key "h", the int 42 as the value of the key "n", and t as a key of its
\* own value when it is a str
Key_h == <<"h">>
Key_n == <<"n">>
DataOf(t) ==
    [k \in {Key_h, Key_n} \cup (IF IsStr(t) THEN {t} ELSE {}) |->
        IF k = Key_n THEN Int42 ELSE t]

EmptyDict == <<>>
Dict1(k, v) == [x \in {k} |-> v]
Dict2(k1, v1, k2, v2) == [x \in {k1, k2} |-> IF x = k1 THEN v1 ELSE v2]

\* mapping states [g, e, r] the text claims are checked in: nothing defined;
\* plain values in two scopes; a value that holds a token of a defined name
\* and a key that holds a brace; an empty value shadowing a global one
Configs ==
    { [g |-> EmptyDict, e |-> EmptyDict, r |-> EmptyDict],
      [g |-> Dict1(Str_a, Variable(Str_a, <<"g">>)),
       e |-> Dict1(Str_b, Variable(Str_b, <<"e">>)),
       r |-> EmptyDict],
      [g |-> Dict2(Str_a, Variable(Str_a, Token(Str_b)),
                   Str_ra, Variable(Str_ra, <<"k">>)),
       e |-> EmptyDict,
       r |-> Dict1(Str_b, <<"r">>)],
      [g |-> Dict1(Str_b, Variable(Str_b, <<"g">>)),
       e |-> Dict1(Str_b, Variable(Str_b, <<>>)),
       r |-> EmptyDict] }

(***************************************************************************)
(* Resolver operations as steps.                                           *)
(***************************************************************************)
\* mutant of set_global_variables: the entries are merged into the mapping
set_global_variables_Merge(variables) ==
    /\ globalVars' = DictUpdate(globalVars, variables)
    /\ op' = "set_global_variables"
    /\ ret' = NoneValue
    /\ raised' = NoException
    /\ text' = variables
    /\ UNCHANGED <<envVars, runtimeVars, windowVars, aliased, dataVars>>

\* self._global_variables = variables: the mapping is the caller's dict
\* itself, not a copy of it
set_global_variables(variables) ==
    /\ globalVars' = variables
    /\ aliased' = aliased \cup {"global"}
    /\ op' = "set_global_variables"
    /\ ret' = NoneValue
    /\ raised' = NoException
    /\ text' = variables
    /\ UNCHANGED <<envVars, runtimeVars, windowVars, dataVars>>

\* self._environment_variables = variables, the caller's dict as well
set_environment_variables(variables) ==
    /\ envVars' = variables
    /\ aliased' = aliased \cup {"environment"}
    /\ op' = "set_environment_variables"
    /\ ret' = NoneValue
    /\ raised' = NoException
    /\ text' = variables
    /\ UNCHANGED <<globalVars, runtimeVars, windowVars, dataVars>>

\* self._runtime_variables[key] = value
DictSet(d, k, v) == [x \in DOMAIN d \cup {k} |-> IF x = k THEN v ELSE d[x]]

set_runtime_variable(key, value) ==
    /\ runtimeVars' = DictSet(runtimeVars, key, value)
    /\ op' = "set_runtime_variable"
    /\ ret' = NoneValue
    /\ raised' = NoException
    /\ text' = <<key, value>>
    /\ UNCHANGED <<globalVars, envVars, windowVars, aliased, dataVars>>

\* mutant of clear_runtime: the environment mapping is emptied as well
clear_runtime_AndEnvironment ==
    /\ runtimeVars' = EmptyDict
    /\ envVars' = EmptyDict
    /\ op' = "clear_runtime"
    /\ ret' = NoneValue
    /\ raised' = NoException
    /\ text' = NoneValue
    /\ UNCHANGED <<globalVars, windowVars, aliased, dataVars>>

clear_runtime ==
    /\ runtimeVars' = EmptyDict
    /\ op' = "clear_runtime"
    /\ ret' = NoneValue
    /\ raised' = NoException
    /\ text' = NoneValue
    /\ UNCHANGED <<globalVars, envVars, windowVars, aliased, dataVars>>

\* mutant of Resolve: the runtime entries are used up by the call
Resolve_ConsumesRuntime(t) ==
    /\ text' = t
    /\ op' = "resolve"
    /\ ret' = resolve(t)
    /\ raised' = NoException
    /\ runtimeVars' = EmptyDict
    /\ UNCHANGED <<globalVars, envVars, windowVars, aliased, dataVars>>

Resolve(t) ==
    /\ text' = t
    /\ op' = "resolve"
    /\ ret' = resolve(t)
    /\ raised' = NoException
    /\ UNCHANGED <<resolverVars, windowVars, aliased, dataVars>>

GetUnresolvedVariables(t) ==
    /\ text' = t
    /\ op' = "get_unresolved_variables"
    /\ IF findall_raises(t)
       THEN ret' = NoneValue /\ raised' = TypeError
       ELSE ret' = get_unresolved_variables(t) /\ raised' = NoException
    /\ UNCHANGED <<resolverVars, windowVars, aliased, dataVars>>

\* validate raises what get_unresolved_variables raises
Validate(t) ==
    /\ text' = t
    /\ op' = "validate"
    /\ IF findall_raises(t)
       THEN ret' = NoneValue /\ raised' = TypeError
       ELSE ret' = validate(t) /\ raised' = NoException
    /\ UNCHANGED <<resolverVars, windowVars, aliased, dataVars>>

\* resolve_dict(DataOf(t))
ResolveDict(t) ==
    /\ text' = t
    /\ op' = "resolve_dict"
    /\ ret' = resolve_dict(DataOf(t))
    /\ raised' = NoException
    /\ UNCHANGED <<resolverVars, windowVars, aliased, dataVars>>

GetAllVariables ==
    /\ text' = NoneValue
    /\ op' = "get_all_variables"
    /\ ret' = get_all_variables
    /\ raised' = NoException
    /\ UNCHANGED <<resolverVars, windowVars, aliased, dataVars>>

\* del d[k]
DictDel(d, k) == [x \in DOMAIN d \ {k} |-> d[x]]

\* the caller of set_global_variables or set_environment_variables writes
\* to the dict it passed: m[key] = Variable(key, value).  The dict is the
\* object the resolver holds.
caller_sets(scope, key, value) ==
    /\ scope \in aliased
    /\ IF scope = "global"
       THEN /\ globalVars' = DictSet(globalVars, key, Variable(key, value))
            /\ UNCHANGED envVars
       ELSE /\ envVars' = DictSet(envVars, key, Variable(key, value))
            /\ UNCHANGED globalVars
    /\ op' = "caller"
    /\ UNCHANGED <<runtimeVars, text, ret, raised, windowVars, aliased, dataVars>>

\* the caller removes an entry of the dict it passed: del m[key]
caller_deletes(scope, key) ==
    /\ scope \in aliased
    /\ IF scope = "global"
       THEN /\ key \in DOMAIN globalVars
            /\ globalVars' = DictDel(globalVars, key)
            /\ UNCHANGED envVars
       ELSE /\ key \in DOMAIN envVars
            /\ envVars' = DictDel(envVars, key)
            /\ UNCHANGED globalVars
    /\ op' = "caller"
    /\ UNCHANGED <<runtimeVars, text, ret, raised, windowVars, aliased, dataVars>>

(***************************************************************************)
(* The database: collections, requests and history, and the two panels     *)
(* that show them.                                                         *)
(***************************************************************************)
\* a nullable foreign key that is NULL (parent_id, collection_id); ids start
\* at 1
NoId == 0

MaxCollections == 3
MaxRequests == 2
\* the number of records added beyond what the panel can hold
MaxAdds == 2

\* the list_widget.count() above which add_history evicts, and the limit of
\* the query of _load_data
HistoryLimit == 100

MyCollection == "My Collection"

Max(S) == CHOOSE x \in S : \A y \in S : y <= x
Min(S) == CHOOSE x \in S : \A y \in S : x <= y

\* the primary key of a new row of a table: one more than the largest
NewId(table) == IF DOMAIN table = {} THEN 1 ELSE Max(DOMAIN table) + 1

Collection(name, parent_id) == [name |-> name, parent_id |-> parent_id]
Request(collection_id) == [collection_id |-> collection_id]

\* Collection.children, as the relationship loads it
children(table, c) == {x \in DOMAIN table : table[x].parent_id = c}

\* the collections beneath c, at any depth
RECURSIVE Beneath(_, _)
Beneath(table, c) ==
    children(table, c) \cup UNION {Beneath(table, x) : x \in children(table, c)}

\* session.delete(collection) and commit.  Collection.requests cascades
\* "all, delete-orphan": its requests are deleted with it.  Collection.children
\* has no delete cascade: the rows stay and their parent_id is set to NULL.
session_delete_collections(c) ==
    [x \in DOMAIN collections \ {c} |->
        IF collections[x].parent_id = c
        THEN [collections[x] EXCEPT !.parent_id = NoId]
        ELSE collections[x]]
session_delete_requests(c) ==
    [r \in {x \in DOMAIN requests : requests[x].collection_id # c} |-> requests[r]]

\* CollectionTree.load_collections over the collections with no parent: each
\* with its children, recursively, and its requests
load_collections_items(table) ==
    LET roots == {c \in DOMAIN table : table[c].parent_id = NoId}
        shown == roots \cup UNION {Beneath(table, c) : c \in roots}
    IN [c \in shown |-> table[c].parent_id]
load_collections_requests(table, reqs) ==
    [r \in {x \in DOMAIN reqs :
               reqs[x].collection_id \in DOMAIN load_collections_items(table)} |->
        reqs[r].collection_id]

\* the items of the tree beneath the item c, at any depth
RECURSIVE ItemsBeneath(_, _)
ItemsBeneath(tree, c) ==
    LET below == {x \in DOMAIN tree : tree[x] = c}
    IN below \cup UNION {ItemsBeneath(tree, x) : x \in below}

\* a History row for a config whose response arrived
History(id, config) == [id |-> id, method |-> config.method, url |-> config.url]

\* the while loop of add_history
RECURSIVE Evict(_)
Evict(items) ==
    IF Len(items) > HistoryLimit
    THEN Evict(SubSeq(items, 1, Len(items) - 1))
    ELSE items

\* mutant of add_history: the item is added at the bottom
add_history_AtBottom(items, history) == Evict(items \o <<history>>)

\* HistoryPanel.add_history
add_history(items, history) == Evict(<<history>> \o items)

\* the query of _load_data: order_by(created_at.desc()).limit(100)
Reversed(s) == [i \in 1..Len(s) |-> s[Len(s) + 1 - i]]
query_history(table) ==
    SubSeq(Reversed(table), 1, Min({Len(table), HistoryLimit}))

\* HistoryPanel.set_history
set_history(history_list) == history_list

\* MainWindow._load_data
load_data_effect(table, reqs, hist) ==
    /\ treeCollections' = load_collections_items(table)
    /\ treeRequests' = load_collections_requests(table, reqs)
    /\ historyPanel' = set_history(query_history(hist))

\* MainWindow._save_history: the row is added and committed, then shown
save_history(config) ==
    LET history == History(Len(historyStore) + 1, config)
    IN /\ historyStore' = Append(historyStore, history)
       /\ historyPanel' = add_history(historyPanel, history)

\* a database with no collection, request or history, and the panels loaded
\* from it
InitData ==
    /\ aliased = {}
    /\ collections = <<>>
    /\ requests = <<>>
    /\ treeCollections = <<>>
    /\ treeRequests = <<>>
    /\ historyStore = <<>>
    /\ historyPanel = <<>>

\* MainWindow._load_data when the window is opened again on the same file
load_data ==
    /\ load_data_effect(collections, requests, historyStore)
    /\ UNCHANGED <<collections, requests, historyStore, resolverVars, callVars,
                   windowVars, aliased>>

\* CollectionTree._on_add_collection and _create_sub_collection, the name
\* accepted, then MainWindow._on_collection_created
on_collection_created(name, parent_id) ==
    /\ Cardinality(DOMAIN collections) < MaxCollections
    /\ parent_id = NoId \/ parent_id \in DOMAIN treeCollections
    /\ collections' =
          [x \in DOMAIN collections \cup {NewId(collections)} |->
              IF x \in DOMAIN collections THEN collections[x]
              ELSE Collection(name, parent_id)]
    /\ load_data_effect(collections', requests, historyStore)
    /\ UNCHANGED <<requests, historyStore, resolverVars, callVars, windowVars,
                   aliased>>

\* CollectionTree._delete_collection, answered Yes: collection_deleted is
\* emitted, MainWindow._on_collection_deleted deletes the row, then the item
\* and what hangs beneath it leave the tree
delete_collection(c) ==
    /\ c \in DOMAIN treeCollections
    /\ IF c \in DOMAIN collections
       THEN /\ collections' = session_delete_collections(c)
            /\ requests' = session_delete_requests(c)
       ELSE UNCHANGED <<collections, requests>>
    /\ LET removed == {c} \cup ItemsBeneath(treeCollections, c)
       IN /\ treeCollections' =
                [x \in DOMAIN treeCollections \ removed |-> treeCollections[x]]
          /\ treeRequests' =
                [r \in {x \in DOMAIN treeRequests : treeRequests[x] \notin removed} |->
                    treeRequests[r]]
    /\ UNCHANGED <<historyStore, historyPanel, resolverVars, callVars, windowVars,
                   aliased>>

\* CollectionTree._delete_request, answered Yes, then
\* MainWindow._on_request_deleted
delete_request(r) ==
    /\ r \in DOMAIN treeRequests
    /\ requests' = [x \in DOMAIN requests \ {r} |-> requests[x]]
    /\ treeRequests' = [x \in DOMAIN treeRequests \ {r} |-> treeRequests[x]]
    /\ UNCHANGED <<collections, treeCollections, historyStore, historyPanel,
                   resolverVars, callVars, windowVars, aliased>>

\* MainWindow._save_request, the name accepted: the request goes to the first
\* collection named "My Collection", created when there is none
save_request ==
    /\ Cardinality(DOMAIN requests) < MaxRequests
    /\ LET named == {c \in DOMAIN collections : collections[c].name = MyCollection}
           default_collection == IF named = {} THEN NewId(collections) ELSE Min(named)
       IN /\ named = {} => Cardinality(DOMAIN collections) < MaxCollections
          /\ collections' =
                [x \in DOMAIN collections \cup {default_collection} |->
                    IF x \in DOMAIN collections THEN collections[x]
                    ELSE Collection(MyCollection, NoId)]
          /\ requests' =
                [x \in DOMAIN requests \cup {NewId(requests)} |->
                    IF x \in DOMAIN requests THEN requests[x]
                    ELSE Request(default_collection)]
    /\ load_data_effect(collections', requests', historyStore)
    /\ UNCHANGED <<historyStore, resolverVars, callVars, windowVars, aliased>>

(***************************************************************************)
(* The main window: the request panel, the URL bar and the send path.      *)
(***************************************************************************)
Http == <<"h", "t", "t", "p", ":", "/", "/">>
Https == <<"h", "t", "t", "p", "s", ":", "/", "/">>
ContentType == <<"C", "o", "n", "t", "e", "n", "t", "-", "T", "y", "p", "e">>
ApplicationJson ==
    <<"a", "p", "p", "l", "i", "c", "a", "t", "i", "o", "n", "/", "j", "s", "o", "n">>

\* str.startswith
startswith(s, prefix) ==
    Len(s) >= Len(prefix) /\ SubSeq(s, 1, Len(prefix)) = prefix

KeyValueItem(k, v, e) == [key |-> k, value |-> v, enabled |-> e]

\* mutant of get_dict: the check box of the row is not looked at
get_dict_AllRows(rows) ==
    LET kept == {i \in DOMAIN rows : rows[i].key # <<>>}
        last(k) == CHOOSE i \in kept :
                      /\ rows[i].key = k
                      /\ \A j \in kept : rows[j].key = k => j <= i
    IN [k \in {rows[i].key : i \in kept} |-> rows[last(k)].value]

\* KeyValueTable.get_dict: the enabled rows with a non-empty key, a later row
\* overwriting an earlier one of the same key
get_dict(rows) ==
    LET kept == {i \in DOMAIN rows : rows[i].enabled /\ rows[i].key # <<>>}
        last(k) == CHOOSE i \in kept :
                      /\ rows[i].key = k
                      /\ \A j \in kept : rows[j].key = k => j <= i
    IN [k \in {rows[i].key : i \in kept} |-> rows[last(k)].value]

\* RequestConfig.auth is None (or an empty dict, which `if config.auth` takes
\* the same way): a dict with no key
NoAuth == [k \in {} |-> <<>>]

\* RequestPanel.get_request_config
get_request_config ==
    [method |-> "GET",
     url |-> url,
     headers |-> get_dict(headers),
     params |-> get_dict(params),
     body |-> IF strip(body) # <<>> THEN body ELSE NoneValue,
     body_type |-> IF strip(body) # <<>> THEN "json" ELSE "none",
     auth |-> NoAuth]

\* RequestPanel._setup_ui and RequestPanel.clear: the default header row
DefaultHeaders == <<KeyValueItem(ContentType, ApplicationJson, TRUE)>>

\* no call of client.request yet: keyword arguments with no key
NoRequest == [k \in {} |-> <<>>]

\* ResponseStatusBar: the label as built and after set_response(None), after
\* set_loading, after set_response(response), after set_error
NoResponse == "No Response"
Sending == "Sending..."
Response == "Response"
Error == "Error"

\* MainWindow.__init__: a fresh executor and resolver, then _load_data, which
\* reads collections and history and leaves the resolver as constructed
InitWindow ==
    /\ url = <<>>
    /\ headers = DefaultHeaders
    /\ params = <<>>
    /\ body = <<>>
    /\ isSending = FALSE
    /\ barSending = FALSE
    /\ dispatched = <<>>
    /\ cancelRequested = FALSE
    /\ sent = NoRequest
    /\ viewer = NoResponse

\* the URL with the default scheme put in front when it has none
WithScheme(u) ==
    IF startswith(u, Http) \/ startswith(u, Https) THEN u ELSE Https \o u

\* the variable substitution of _send_request, on the config of the panel
\* with the URL u
Substituted(config, u) ==
    [config EXCEPT
        !.url = resolve(u),
        !.headers = resolve_dict(config.headers),
        !.params = resolve_dict(config.params),
        !.body = IF config.body # NoneValue /\ config.body # <<>>
                 THEN resolve(config.body) ELSE config.body]

\* mutant of send_request: _is_sending and the sending state of the URL bar
\* are not set
send_request_NoFlag ==
    IF isSending \/ strip(url) = <<>>
    THEN UNCHANGED vars
    ELSE /\ Len(historyStore) < MaxAdds
         /\ url' = IF startswith(strip(url), Http) \/ startswith(strip(url), Https)
                   THEN url ELSE WithScheme(strip(url))
         /\ dispatched' = Append(dispatched,
                Substituted(get_request_config, WithScheme(strip(url))))
         /\ viewer' = Sending
         /\ UNCHANGED <<headers, params, body, store, cancelRequested, sent,
                        isSending, barSending, resolverVars, callVars,
                        aliased, dataVars>>

\* MainWindow._send_request, up to asyncio.ensure_future(do_request()); the
\* user sends until the history table holds MaxAdds rows
send_request ==
    IF isSending \/ strip(url) = <<>>
    THEN UNCHANGED vars
    ELSE /\ Len(historyStore) < MaxAdds
         /\ url' = IF startswith(strip(url), Http) \/ startswith(strip(url), Https)
                   THEN url ELSE WithScheme(strip(url))
         /\ isSending' = TRUE
         /\ barSending' = TRUE
         /\ dispatched' = Append(dispatched,
                Substituted(get_request_config, WithScheme(strip(url))))
         /\ viewer' = Sending
         /\ UNCHANGED <<headers, params, body, store, cancelRequested, sent,
                        resolverVars, callVars, aliased, dataVars>>

\* HttpxRequestExecutor._current_task as __init__ sets it; nothing assigns it
CurrentTask == NoneValue

\* MainWindow._cancel_request: executor.cancel() cancels _current_task when
\* there is one that is not done; do_request then catches CancelledError and
\* runs MainWindow._on_request_cancelled, which is part of this step
cancel_request ==
    /\ cancelRequested' = TRUE
    /\ IF CurrentTask # NoneValue
       THEN /\ dispatched' = <<>>
            /\ isSending' = FALSE
            /\ barSending' = FALSE
            /\ viewer' = NoResponse
       ELSE UNCHANGED <<dispatched, isSending, barSending, viewer>>
    /\ UNCHANGED <<url, headers, params, body, store, sent, resolverVars, callVars,
                   aliased, dataVars>>

\* UrlBar._on_send_clicked: the button and Ctrl+Return
OnSendClicked ==
    IF barSending THEN cancel_request ELSE send_request

\* do_request: execute returned, MainWindow._on_response_received, which
\* ends with _save_history
on_response_received ==
    /\ dispatched # <<>>
    /\ isSending' = FALSE
    /\ barSending' = FALSE
    /\ dispatched' = Tail(dispatched)
    /\ cancelRequested' = FALSE
    /\ viewer' = Response
    /\ save_history(Head(dispatched))
    /\ UNCHANGED <<url, headers, params, body, store, sent, resolverVars, callVars,
                   aliased, collections, requests, treeCollections, treeRequests>>

\* mutant of on_request_error: _is_sending and the URL bar are left as they are
on_request_error_KeepsFlag ==
    /\ dispatched # <<>>
    /\ dispatched' = Tail(dispatched)
    /\ cancelRequested' = FALSE
    /\ viewer' = Error
    /\ UNCHANGED <<isSending, barSending, url, headers, params, body, store, sent,
                   resolverVars, callVars, aliased, dataVars>>

\* mutant of on_request_error: the failed request is written to the history
on_request_error_SavesHistory ==
    /\ dispatched # <<>>
    /\ isSending' = FALSE
    /\ barSending' = FALSE
    /\ viewer' = Error
    /\ dispatched' = Tail(dispatched)
    /\ cancelRequested' = FALSE
    /\ save_history(Head(dispatched))
    /\ UNCHANGED <<url, headers, params, body, store, sent, resolverVars, callVars,
                   aliased, collections, requests, treeCollections, treeRequests>>

\* do_request: execute raised, MainWindow._on_request_error
on_request_error ==
    /\ dispatched # <<>>
    /\ isSending' = FALSE
    /\ barSending' = FALSE
    /\ viewer' = Error
    /\ dispatched' = Tail(dispatched)
    /\ cancelRequested' = FALSE
    /\ UNCHANGED <<url, headers, params, body, store, sent, resolverVars, callVars,
                   aliased, dataVars>>

\* the user types in the URL input, which set_sending disables while sending
EditUrl(u) ==
    /\ ~barSending
    /\ url' = u
    /\ UNCHANGED <<headers, params, body, isSending, barSending, dispatched,
                   store, cancelRequested, sent, viewer, resolverVars, callVars,
                   aliased, dataVars>>

\* KeyValueTable.add_row on the headers table
AddHeaderRow(item) ==
    /\ Len(headers) < Len(DefaultHeaders) + MaxRows
    /\ headers' = Append(headers, item)
    /\ UNCHANGED <<url, params, body, isSending, barSending, dispatched,
                   store, cancelRequested, sent, viewer, resolverVars, callVars,
                   aliased, dataVars>>

\* KeyValueTable.add_row on the params table
AddParamRow(item) ==
    /\ Len(params) < MaxRows
    /\ params' = Append(params, item)
    /\ UNCHANGED <<url, headers, body, isSending, barSending, dispatched,
                   store, cancelRequested, sent, viewer, resolverVars, callVars,
                   aliased, dataVars>>

\* the user edits the body
EditBody(b) ==
    /\ body' = b
    /\ UNCHANGED <<url, headers, params, isSending, barSending, dispatched,
                   store, cancelRequested, sent, viewer, resolverVars, callVars,
                   aliased, dataVars>>

\* MainWindow._clear_request: RequestPanel.clear()
clear_request ==
    /\ url' = <<>>
    /\ headers' = DefaultHeaders
    /\ params' = <<>>
    /\ body' = <<>>
    /\ viewer' = NoResponse
    /\ UNCHANGED <<isSending, barSending, dispatched, store, cancelRequested, sent,
                   resolverVars, callVars, aliased, dataVars>>

(***************************************************************************)
(* HttpxRequestExecutor.execute, up to its call of client.request.         *)
(***************************************************************************)
Authorization ==
    <<"A", "u", "t", "h", "o", "r", "i", "z", "a", "t", "i", "o", "n">>
Bearer == <<"B", "e", "a", "r", "e", "r">>

\* dict.get(key, default)
get(d, key, default) == IF key \in DOMAIN d THEN d[key] ELSE default

\* httpx.BasicAuth(username, password)
BasicAuth(username, password) == [username |-> username, password |-> password]

\* _build_auth: what it returns, a dict with no key standing for None
build_auth(auth_config) ==
    IF get(auth_config, "type", "None") = "basic"
    THEN BasicAuth(get(auth_config, "username", <<>>),
                   get(auth_config, "password", <<>>))
    ELSE NoAuth

\* _build_auth: the headers dict it was handed, after the call
build_auth_headers(auth_config, hdrs) ==
    IF get(auth_config, "type", "None") = "bearer"
    THEN DictSet(hdrs, Authorization,
                 Bearer \o <<SP>> \o get(auth_config, "token", <<>>))
    ELSE IF /\ get(auth_config, "type", "None") = "api_key"
            /\ get(auth_config, "add_to", "header") = "header"
         THEN DictSet(hdrs, get(auth_config, "key", <<>>),
                      get(auth_config, "value", <<>>))
         ELSE hdrs

\* the keyword arguments execute builds for client.request (timeout and
\* follow_redirects, which are copied from the config, left out); a key is
\* in the DOMAIN when the code puts it into request_kwargs
request_kwargs(config) ==
    LET has_body == /\ config.body # NoneValue
                    /\ config.body # <<>>
                    /\ config.body_type # "none"
        with_type == IF /\ has_body
                        /\ config.body_type = "json"
                        /\ ContentType \notin DOMAIN config.headers
                     THEN DictSet(config.headers, ContentType, ApplicationJson)
                     ELSE config.headers
        use_auth == DOMAIN config.auth # {}
        hdrs == IF use_auth THEN build_auth_headers(config.auth, with_type)
                ELSE with_type
        auth == IF use_auth THEN build_auth(config.auth) ELSE NoAuth
        keys == {"method", "url", "headers", "params"}
                    \cup (IF has_body THEN {"content"} ELSE {})
                    \cup (IF DOMAIN auth # {} THEN {"auth"} ELSE {})
    IN [k \in keys |->
           CASE k = "method" -> config.method
             [] k = "url" -> config.url
             [] k = "headers" -> hdrs
             [] k = "params" -> config.params
             [] k = "content" -> config.body
             [] k = "auth" -> auth]

\* do_request: execute runs for the config in flight and calls client.request
execute ==
    /\ dispatched # <<>>
    /\ DOMAIN sent = {}
    /\ sent' = request_kwargs(dispatched[1])
    /\ UNCHANGED <<url, headers, params, body, isSending, barSending, dispatched,
                   store, cancelRequested, viewer, resolverVars, callVars,
                   aliased, dataVars>>

\* the auth dicts of the configs execute is called with: none, the three
\* schemes with and without their optional keys, and two that name no
\* known scheme
AuthChoices ==
    {NoAuth,
     [type |-> "basic", username |-> <<"u">>, password |-> <<"p">>],
     [type |-> "basic", username |-> <<"u">>],
     [type |-> "bearer", token |-> <<"t">>],
     [type |-> "bearer"],
     [type |-> "api_key", key |-> <<"K">>, value |-> <<"v">>, add_to |-> "header"],
     [type |-> "api_key", key |-> <<"K">>, value |-> <<"v">>],
     [type |-> "api_key", key |-> <<"K">>, value |-> <<"v">>, add_to |-> "query"],
     [type |-> "api_key", key |-> Authorization, value |-> <<"v">>, add_to |-> "header"],
     [type |-> "digest", username |-> <<"u">>],
     [username |-> <<"u">>, password |-> <<"p">>]}

HeaderChoices ==
    {EmptyDict,
     Dict1(Authorization, <<"o">>),
     Dict2(ContentType, <<"c">>, <<"K">>, <<"o">>)}

ParamChoices == {EmptyDict, Dict1(<<"q">>, <<"1">>)}

ExecuteConfigs ==
    {[method |-> "GET", url |-> Https \o Str_a, headers |-> h, params |-> q,
      body |-> b, body_type |-> IF b = NoneValue THEN "none" ELSE "json",
      auth |-> a] :
        h \in HeaderChoices, q \in ParamChoices, b \in {NoneValue, <<"1">>},
        a \in AuthChoices}

\* what the user may type
UrlChoices == {<<SP>>, PaddedToken(Str_a, 1, 0), Http \o Str_a}
BodyChoices == {<<SP>>, PaddedToken(Str_a, 1, 0)}
\* rows the user may add to the headers: an enabled one, a disabled one, an
\* enabled one with the key of the default header
HeaderRowChoices ==
    {KeyValueItem(<<"k">>, PaddedToken(Str_a, 1, 0), TRUE),
     KeyValueItem(<<"d">>, <<"v">>, FALSE),
     KeyValueItem(ContentType, <<"t">>, TRUE)}
\* and to the parameters: an enabled one, an enabled one whose key cell is
\* empty
ParamRowChoices ==
    {KeyValueItem(<<"k">>, PaddedToken(Str_a, 1, 0), TRUE),
     KeyValueItem(<<>>, <<"e">>, TRUE)}

\* the variable tables of the database file the application opens: empty,
\* one GlobalVariable, or one EnvironmentVariable of the active environment
EmptyStore == [globals |-> EmptyDict, env |-> EmptyDict]
Stores ==
    {EmptyStore,
     [globals |-> Dict1(Str_a, Variable(Str_a, <<"x">>)), env |-> EmptyDict],
     [globals |-> EmptyDict, env |-> Dict1(Str_a, Variable(Str_a, <<"y">>))]}

(***************************************************************************)
(* Spec: the resolver from construction on, its operations called in any   *)
(* order with small arguments.                                             *)
(***************************************************************************)
ScopeKeys == {Str_a, Str_b}
ScopeValues == {<<"x">>, <<"y">>}

\* the dicts of Variable handed to set_global_variables and
\* set_environment_variables
\* and one with an empty key, a key that holds a brace and a padded key
Str_sa == <<SP, "a">>
OddKeys == [k \in {<<>>, Str_ra, Str_sa} |-> IF k = Str_ra THEN <<"y">> ELSE <<"x">>]
VarDicts ==
    UNION {[ks -> ScopeValues] : ks \in SUBSET ScopeKeys} \cup {OddKeys}

AsVariables(d) == [k \in DOMAIN d |-> Variable(k, d[k])]

CallTexts ==
    {PaddedToken(k, l, r) : k \in ScopeKeys, l \in 0..MaxPad, r \in 0..MaxPad}

\* the texts validate and resolve_dict are called with in Spec
PlainTokens == {Token(k) : k \in ScopeKeys}

\* VariableResolver.__init__
Init ==
    /\ globalVars = EmptyDict
    /\ envVars = EmptyDict
    /\ runtimeVars = EmptyDict
    /\ text = NoneValue
    /\ op = "init"
    /\ ret = NoneValue
    /\ raised = NoException
    /\ InitWindow
    /\ InitData
    /\ store = EmptyStore

Next ==
    \/ \E d \in VarDicts : set_global_variables(AsVariables(d))
    \/ \E d \in VarDicts : set_environment_variables(AsVariables(d))
    \/ \E k \in ScopeKeys, v \in ScopeValues : set_runtime_variable(k, v)
    \/ clear_runtime
    \/ \E t \in CallTexts : Resolve(t)
    \/ \E t \in CallTexts : GetUnresolvedVariables(t)
    \/ \E t \in PlainTokens : Validate(t)
    \/ \E t \in PlainTokens : ResolveDict(t)
    \/ GetAllVariables

Spec == Init /\ [][Next]_vars

(***************************************************************************)
(* SpecCaller: the resolver and a caller that keeps the dicts it passed to *)
(* set_global_variables and set_environment_variables and writes to them.  *)
(***************************************************************************)
Scopes == {"global", "environment"}

NextCaller ==
    \/ \E d \in VarDicts : set_global_variables(AsVariables(d))
    \/ \E d \in VarDicts : set_environment_variables(AsVariables(d))
    \/ \E scope \in Scopes, k \in ScopeKeys, v \in ScopeValues :
          caller_sets(scope, k, v)
    \/ \E scope \in Scopes, k \in ScopeKeys : caller_deletes(scope, k)
    \/ \E t \in PlainTokens : Resolve(t)

SpecCaller == Init /\ [][NextCaller]_vars

(***************************************************************************)
(* SpecText: one input text and one mapping state, the text operations     *)
(* applied to it.                                                          *)
(***************************************************************************)
InitText ==
    /\ text \in Texts
    /\ \E c \in Configs :
          /\ globalVars = c.g
          /\ envVars = c.e
          /\ runtimeVars = c.r
    /\ op = "init"
    /\ ret = NoneValue
    /\ raised = NoException
    /\ InitWindow
    /\ InitData
    /\ store = EmptyStore

NextText ==
    \/ Resolve(text)
    \/ GetUnresolvedVariables(text)
    \/ Validate(text)
    \/ ResolveDict(text)

SpecText == InitText /\ [][NextText]_vars

(***************************************************************************)
(* SpecAny: as SpecText, the input being any text or None, every operation *)
(* of the resolver that reads applied to it.                               *)
(***************************************************************************)
InitAny ==
    /\ text \in Texts \cup {NoneValue}
    /\ \E c \in Configs :
          /\ globalVars = c.g
          /\ envVars = c.e
          /\ runtimeVars = c.r
    /\ op = "init"
    /\ ret = NoneValue
    /\ raised = NoException
    /\ InitWindow
    /\ InitData
    /\ store = EmptyStore

NextAny ==
    \/ Resolve(text)
    \/ ResolveDict(text)
    \/ GetUnresolvedVariables(text)
    \/ Validate(text)
    \/ GetAllVariables

SpecAny == InitAny /\ [][NextAny]_vars

(***************************************************************************)
(* SpecWindow: the main window from construction on, over a database file  *)
(* with some variable records, the user editing the request and sending.   *)
(***************************************************************************)
InitWindowSpec ==
    /\ globalVars = EmptyDict
    /\ envVars = EmptyDict
    /\ runtimeVars = EmptyDict
    /\ text = NoneValue
    /\ op = "init"
    /\ ret = NoneValue
    /\ raised = NoException
    /\ InitWindow
    /\ InitData
    /\ store \in Stores

NextWindow ==
    \/ OnSendClicked
    \/ on_response_received
    \/ on_request_error
    \/ \E u \in UrlChoices : EditUrl(u)
    \/ \E item \in HeaderRowChoices : AddHeaderRow(item)
    \/ \E item \in ParamRowChoices : AddParamRow(item)
    \/ \E b \in BodyChoices : EditBody(b)
    \/ clear_request

SpecWindow == InitWindowSpec /\ [][NextWindow]_vars

\* MainWindow.__init__ on a file with no variable record
InitWindowFair == InitWindowSpec /\ store = EmptyStore

\* the window with the event loop running do_request on: execute, which waits
\* for the HTTP client under its timeout, returns or raises, and the handler
\* of the outcome runs
SpecWindowFair ==
    InitWindowFair /\ [][NextWindow]_vars
        /\ WF_vars(on_response_received \/ on_request_error)

(***************************************************************************)
(* SpecWindowVars: SpecWindow with the resolver of the window given its    *)
(* global variables through set_global_variables, one of them holding a    *)
(* base URL.                                                               *)
(***************************************************************************)
BaseUrlDicts == {Dict1(Str_a, Https \o Str_b)}

NextWindowVars ==
    \/ NextWindow
    \/ \E d \in BaseUrlDicts : set_global_variables(AsVariables(d))

SpecWindowVars == InitWindowSpec /\ [][NextWindowVars]_vars

(***************************************************************************)
(* SpecExecute: one request in flight, with any of the configs of          *)
(* ExecuteConfigs, and the executor building the call of the HTTP client.  *)
(***************************************************************************)
InitExecute ==
    /\ globalVars = EmptyDict
    /\ envVars = EmptyDict
    /\ runtimeVars = EmptyDict
    /\ text = NoneValue
    /\ op = "init"
    /\ ret = NoneValue
    /\ raised = NoException
    /\ url = Https \o Str_a
    /\ headers = DefaultHeaders
    /\ params = <<>>
    /\ body = <<>>
    /\ isSending = TRUE
    /\ barSending = TRUE
    /\ \E config \in ExecuteConfigs : dispatched = <<config>>
    /\ cancelRequested = FALSE
    /\ sent = NoRequest
    /\ viewer = Sending
    /\ store = EmptyStore
    /\ InitData

NextExecute == execute

SpecExecute == InitExecute /\ [][NextExecute]_vars

(***************************************************************************)
(* SpecCollections: the window opened on an empty database file, the user  *)
(* creating and deleting collections, saving and deleting requests, and    *)
(* opening the window again.                                               *)
(***************************************************************************)
CollectionNames == {MyCollection, "c"}

InitCollections ==
    /\ globalVars = EmptyDict
    /\ envVars = EmptyDict
    /\ runtimeVars = EmptyDict
    /\ text = NoneValue
    /\ op = "init"
    /\ ret = NoneValue
    /\ raised = NoException
    /\ InitWindow
    /\ store = EmptyStore
    /\ InitData

NextCollections ==
    \/ \E name \in CollectionNames, parent_id \in {NoId} \cup 1..MaxCollections :
          on_collection_created(name, parent_id)
    \/ \E c \in 1..MaxCollections : delete_collection(c)
    \/ \E r \in 1..MaxRequests : delete_request(r)
    \/ save_request
    \/ load_data

SpecCollections == InitCollections /\ [][NextCollections]_vars

(***************************************************************************)
(* SpecHistory: the window opened on a database file that holds some       *)
(* history, responses arriving one after the other.                        *)
(***************************************************************************)
HistoryUrls == {Https \o Str_a, Https \o Str_b, Http \o Str_a}
HistoryConfig(u) == [method |-> "GET", url |-> u]

\* the history table of the file: n rows, n near what the panel holds
HistoryOf(n) == [i \in 1..n |-> History(i, HistoryConfig(Https \o Str_a))]

InitHistory ==
    /\ globalVars = EmptyDict
    /\ envVars = EmptyDict
    /\ runtimeVars = EmptyDict
    /\ text = NoneValue
    /\ op = "init"
    /\ ret = NoneValue
    /\ raised = NoException
    /\ InitWindow
    /\ store = EmptyStore
    /\ aliased = {}
    /\ collections = <<>>
    /\ requests = <<>>
    /\ treeCollections = <<>>
    /\ treeRequests = <<>>
    /\ \E n \in (HistoryLimit - MaxAdds)..(HistoryLimit + 1) :
          historyStore = HistoryOf(n)
    /\ historyPanel = set_history(query_history(historyStore))

\* a response arrived for a request of URL u: _save_history
AddHistory(u) ==
    /\ Len(historyStore) < HistoryLimit + MaxAdds
    /\ save_history(HistoryConfig(u))
    /\ UNCHANGED <<collections, requests, treeCollections, treeRequests,
                   resolverVars, callVars, windowVars, aliased>>

NextHistory == \E u \in HistoryUrls : AddHistory(u)

SpecHistory == InitHistory /\ [][NextHistory]_vars

(***************************************************************************)
(* What the specification says of a lookup, in its own words.              *)
(***************************************************************************)
Defined(n) ==
    n \in (DOMAIN runtimeVars \cup DOMAIN envVars \cup DOMAIN globalVars)

\* the value of the first scope, in the order runtime, environment, global,
\* that defines n
ScopeValue(n) ==
    IF n \in DOMAIN runtimeVars THEN runtimeVars[n]
    ELSE IF n \in DOMAIN envVars THEN envVars[n].value
    ELSE globalVars[n].value

(***************************************************************************)
(* C1: the lookup order is runtime, then environment, then global.  A      *)
(* resolve of the token of a name returns the runtime value when the name  *)
(* is in the runtime mapping, else the environment value when it is in the *)
(* environment mapping, else the global value when it is in the global     *)
(* mapping, else the literal token.  Hence for a name defined in all three *)
(* scopes the runtime value is returned, after clear_runtime the           *)
(* environment value, after the environment mapping is replaced by one     *)
(* without the name the global value, and after the global mapping is      *)
(* replaced by one without the name the literal token.                     *)
(***************************************************************************)
C1_Order ==
    \A k \in ScopeKeys :
        (op = "resolve" /\ text = Token(k)) =>
            /\ k \in DOMAIN runtimeVars => ret = runtimeVars[k]
            /\ (k \notin DOMAIN runtimeVars /\ k \in DOMAIN envVars)
                   => ret = envVars[k].value
            /\ (k \notin DOMAIN runtimeVars /\ k \notin DOMAIN envVars
                   /\ k \in DOMAIN globalVars)
                   => ret = globalVars[k].value
            /\ ~Defined(k) => ret = Token(k)

C1_Fallback ==
    \A k \in ScopeKeys :
        /\ (op' = "clear_runtime" /\ k \in DOMAIN envVars)
               => resolve(Token(k))' = envVars[k].value
        /\ (/\ op' = "set_environment_variables"
            /\ k \notin DOMAIN runtimeVars
            /\ k \notin DOMAIN envVars'
            /\ k \in DOMAIN globalVars)
               => resolve(Token(k))' = globalVars[k].value
        /\ (/\ op' = "set_global_variables"
            /\ k \notin DOMAIN runtimeVars
            /\ k \notin DOMAIN envVars
            /\ k \notin DOMAIN globalVars')
               => resolve(Token(k))' = Token(k)

C1_Precedence == []C1_Order /\ [][C1_Fallback]_vars

\* a name defined in all three scopes, with a runtime value that differs
\* from the environment value, resolved to the runtime value
C1_Witness ==
    \E k \in ScopeKeys :
        /\ op = "resolve"
        /\ text = Token(k)
        /\ k \in DOMAIN runtimeVars
        /\ k \in DOMAIN envVars
        /\ k \in DOMAIN globalVars
        /\ runtimeVars[k] # envVars[k].value
        /\ envVars[k].value # globalVars[k].value
        /\ ret = runtimeVars[k]

(***************************************************************************)
(* C7: whitespace around the name inside a token is ignored for lookup.    *)
(* A resolve of "{{" + spaces + n + spaces + "}}", n a defined name,       *)
(* returns the value of n.                                                 *)
(***************************************************************************)
C7_WhitespaceTolerance ==
    \A k \in ScopeKeys, l \in 0..MaxPad, r \in 0..MaxPad :
        (op = "resolve" /\ text = PaddedToken(k, l, r) /\ Defined(k))
            => ret = ScopeValue(k)

C7_Witness ==
    \E k \in ScopeKeys :
        /\ op = "resolve"
        /\ text = PaddedToken(k, MaxPad, MaxPad)
        /\ MaxPad > 0
        /\ Defined(k)
        /\ ret = ScopeValue(k)

(***************************************************************************)
(* Tokens of a text, stated without the scan: a token is "{{", a non-empty *)
(* run of characters other than "}", and "}}".  Two such substrings that   *)
(* overlap end at the same place, and the one that starts first is the     *)
(* token.                                                                  *)
(***************************************************************************)
NoBrace(s) == \A x \in DOMAIN s : s[x] # LB /\ s[x] # RB

\* s[i..j] is "{{" run "}}" with a non-empty run that holds no "}"
IsToken(s, i, j) ==
    /\ 1 <= i
    /\ i + 4 <= j
    /\ j <= Len(s)
    /\ s[i] = LB /\ s[i + 1] = LB
    /\ s[j - 1] = RB /\ s[j] = RB
    /\ \A x \in (i + 2)..(j - 2) : s[x] # RB

\* s[i..j] is "{{" run "}}" with a non-empty run in which no "}}" begins
\* (a single "}" may stand inside the run)
IsLooseToken(s, i, j) ==
    /\ 1 <= i
    /\ i + 4 <= j
    /\ j <= Len(s)
    /\ s[i] = LB /\ s[i + 1] = LB
    /\ s[j - 1] = RB /\ s[j] = RB
    /\ \A x \in (i + 2)..(j - 2) : ~(s[x] = RB /\ s[x + 1] = RB)

Run(s, c) == SubSeq(s, c[1] + 2, c[2] - 2)

\* s[i..j] is a token: no substring of the same shape that ends at j
\* starts before i
IsTokenSpan(s, i, j) ==
    /\ IsToken(s, i, j)
    /\ \A h \in 1..(i - 1) : ~IsToken(s, h, j)

TokensOf(s) ==
    {c \in (1..Len(s)) \X (1..Len(s)) : IsTokenSpan(s, c[1], c[2])}

\* what a token with the captured name run is replaced by
Substitution(run) ==
    IF Defined(strip(run)) THEN ScopeValue(strip(run))
    ELSE Token(strip(run))

\* s from position i on, every token replaced by its substitution and every
\* other character kept
RECURSIVE Replaced(_, _)
Replaced(s, i) ==
    IF i > Len(s) THEN <<>>
    ELSE IF \E j \in (i + 4)..Len(s) : IsTokenSpan(s, i, j)
         THEN LET j == CHOOSE j \in (i + 4)..Len(s) : IsTokenSpan(s, i, j)
              IN Substitution(Run(s, <<i, j>>)) \o Replaced(s, j + 1)
         ELSE <<s[i]>> \o Replaced(s, i + 1)

\* text is pre + "{" + middle + "}" + post, pre and post without braces
Splits(s) ==
    {c \in (1..Len(s)) \X (1..Len(s)) :
        /\ c[1] + 4 <= c[2]
        /\ s[c[1]] = LB
        /\ s[c[2]] = RB
        /\ NoBrace(SubSeq(s, 1, c[1] - 1))
        /\ NoBrace(SubSeq(s, c[2] + 1, Len(s)))}

Pre(s, c) == SubSeq(s, 1, c[1] - 1)
Post(s, c) == SubSeq(s, c[2] + 1, Len(s))

(***************************************************************************)
(* C2: a token whose trimmed name is in no mapping appears in the output   *)
(* of resolve exactly as written in the input, whitespace inside the       *)
(* delimiters included.                                                    *)
(***************************************************************************)
C2_UnresolvedVerbatim ==
    op = "resolve" =>
        \A c \in Splits(text) :
            (IsToken(text, c[1], c[2]) /\ ~Defined(strip(Run(text, c))))
                => ret = text

(***************************************************************************)
(* C3: a substituted value is copied into the output as it is; a token     *)
(* written inside the value is not expanded by the same resolve call.      *)
(***************************************************************************)
C3_SinglePass ==
    op = "resolve" =>
        \A c \in Splits(text) :
            (/\ IsToken(text, c[1], c[2])
             /\ Defined(strip(Run(text, c)))
             /\ TokensOf(ScopeValue(strip(Run(text, c)))) # {})
                => ret = Pre(text, c) \o ScopeValue(strip(Run(text, c)))
                             \o Post(text, c)

\* the value put in holds the token of a defined name, and the output
\* still holds that token
C3_Witness ==
    /\ op = "resolve"
    /\ \E c \in Splits(text) :
          /\ IsToken(text, c[1], c[2])
          /\ Defined(strip(Run(text, c)))
          /\ \E d \in TokensOf(ScopeValue(strip(Run(text, c)))) :
                Defined(Run(ScopeValue(strip(Run(text, c))), d))
          /\ ret = Pre(text, c) \o ScopeValue(strip(Run(text, c)))
                       \o Post(text, c)
          /\ TokensOf(ret) # {}

(***************************************************************************)
(* C4: resolving the result of resolve again changes nothing.              *)
(***************************************************************************)
\* as claimed: for all text and all mapping states
C4_Idempotent ==
    op = "resolve" => resolve(ret) = ret

ValuesOfScopes ==
    {runtimeVars[k] : k \in DOMAIN runtimeVars}
        \cup {envVars[k].value : k \in DOMAIN envVars}
        \cup {globalVars[k].value : k \in DOMAIN globalVars}

\* no value of any mapping is empty or holds a brace
PlainValues == \A v \in ValuesOfScopes : v # <<>> /\ NoBrace(v)

\* as amended: in the mapping states whose values are non-empty and hold
\* neither "{" nor "}", resolving the result of resolve again changes nothing
C4_IdempotentPlainValues ==
    (op = "resolve" /\ PlainValues) => resolve(ret) = ret

\* a token was substituted, another was left unresolved, and the second
\* pass returns the same text
C4_Witness ==
    /\ op = "resolve"
    /\ PlainValues
    /\ \E c \in TokensOf(text) : Defined(strip(Run(text, c)))
    /\ \E c \in TokensOf(text) : ~Defined(strip(Run(text, c)))
    /\ ret # text
    /\ resolve(ret) = ret

(***************************************************************************)
(* C5: which substrings resolve takes for tokens, and what it does with    *)
(* them: the captured name is trimmed and the value looked up for it is    *)
(* put in its place.                                                       *)
(***************************************************************************)
\* as claimed: the run between the delimiters may hold a single "}"
C5_LooseTokenSubstituted ==
    op = "resolve" =>
        \A c \in Splits(text) :
            (IsLooseToken(text, c[1], c[2]) /\ Defined(strip(Run(text, c))))
                => ret = Pre(text, c) \o ScopeValue(strip(Run(text, c)))
                             \o Post(text, c)

\* as amended: the run between the delimiters holds no "}" at all; such a
\* substring is a token, and a substring whose run holds a "}" is not
C5_TokenSubstituted ==
    op = "resolve" =>
        \A c \in Splits(text) :
            /\ (IsToken(text, c[1], c[2]) /\ Defined(strip(Run(text, c))))
                   => ret = Pre(text, c) \o ScopeValue(strip(Run(text, c)))
                                \o Post(text, c)
            /\ (IsLooseToken(text, c[1], c[2]) /\ ~IsToken(text, c[1], c[2])
                    /\ TokensOf(text) = {})
                   => ret = text

\* a token with a padded name of a defined variable, replaced by the value
C5_Witness ==
    /\ op = "resolve"
    /\ \E c \in Splits(text) :
          /\ IsToken(text, c[1], c[2])
          /\ strip(Run(text, c)) # Run(text, c)
          /\ Defined(strip(Run(text, c)))
          /\ ret = Pre(text, c) \o ScopeValue(strip(Run(text, c)))
                       \o Post(text, c)

(***************************************************************************)
(* C6: resolve changes text only at tokens.  The output is the input with  *)
(* each token replaced by its substitution and every other character kept  *)
(* in order; a text without a token is returned identical.                 *)
(***************************************************************************)
C6_OnlyTokensChange ==
    op = "resolve" =>
        /\ ret = Replaced(text, 1)
        /\ TokensOf(text) = {} => ret = text

\* two tokens resolved from two scopes, each replaced by its own value
C6_Witness ==
    /\ op = "resolve"
    /\ \E c, d \in TokensOf(text) :
          /\ c[2] < d[1]
          /\ strip(Run(text, c)) \in DOMAIN globalVars
          /\ strip(Run(text, c)) \notin DOMAIN envVars
          /\ strip(Run(text, d)) \in DOMAIN envVars
          /\ ret = SubSeq(text, 1, c[1] - 1)
                     \o globalVars[strip(Run(text, c))].value
                     \o SubSeq(text, c[2] + 1, d[1] - 1)
                     \o envVars[strip(Run(text, d))].value
                     \o SubSeq(text, d[2] + 1, Len(text))

(***************************************************************************)
(* C8: the names get_unresolved_variables returns.                         *)
(***************************************************************************)
\* as claimed: exactly the token names of the text that are in no mapping
C8_NamesInNoMapping ==
    op = "get_unresolved_variables" =>
        ret = {strip(Run(text, c)) : c \in
                  {d \in TokensOf(text) : ~Defined(strip(Run(text, d)))}}

\* as amended: exactly the names captured by the tokens of the text that one
\* resolve pass produces, each once
C8_NamesLeftAfterResolve ==
    op = "get_unresolved_variables" =>
        LET after == Replaced(text, 1)
        IN ret = {Run(after, c) : c \in TokensOf(after)}

\* one token resolved and one not: only the second name is returned
C8_Witness ==
    /\ op = "get_unresolved_variables"
    /\ \E c, d \in TokensOf(text) :
          /\ Defined(strip(Run(text, c)))
          /\ ~Defined(strip(Run(text, d)))
          /\ ret = {strip(Run(text, d))}

(***************************************************************************)
(* C9: every request _send_request hands to the executor has its URL,      *)
(* every header value, every parameter value and its body (when there is   *)
(* one) passed through resolve; the keys are those of the enabled rows.    *)
(***************************************************************************)
EnabledKeys(rows) ==
    {rows[i].key : i \in {j \in DOMAIN rows : rows[j].enabled /\ rows[j].key # <<>>}}

RawValues(rows, k) ==
    {rows[i].value : i \in {j \in DOMAIN rows : rows[j].enabled /\ rows[j].key = k}}

C9_Dispatch ==
    (Len(dispatched') = Len(dispatched) + 1) =>
        LET config == dispatched'[Len(dispatched')]
        IN /\ \E u \in {strip(url), Https \o strip(url)} :
                  config.url = Replaced(u, 1)
           /\ DOMAIN config.headers = EnabledKeys(headers)
           /\ \A k \in DOMAIN config.headers :
                  \E v \in RawValues(headers, k) :
                      config.headers[k] = Replaced(v, 1)
           /\ DOMAIN config.params = EnabledKeys(params)
           /\ \A k \in DOMAIN config.params :
                  \E v \in RawValues(params, k) :
                      config.params[k] = Replaced(v, 1)
           /\ strip(body) # <<>> => config.body = Replaced(body, 1)
           /\ strip(body) = <<>> => config.body = NoneValue

C9_AllFieldsResolved == [][C9_Dispatch]_vars

\* a request in flight whose URL, header, parameter and body each hold the
\* token as resolve writes it back, not as the user typed it
C9_Witness ==
    /\ isSending
    /\ Len(dispatched) = 1
    /\ dispatched[1].url = Https \o Token(Str_a)
    /\ \E k \in DOMAIN dispatched[1].headers :
          dispatched[1].headers[k] = Token(Str_a)
    /\ \E k \in DOMAIN dispatched[1].params :
          dispatched[1].params[k] = Token(Str_a)
    /\ dispatched[1].body = Token(Str_a)

(***************************************************************************)
(* C10: whenever a request is sent, the global mapping of the resolver     *)
(* holds the stored global variable records and its environment mapping    *)
(* the variables of the active environment.                                *)
(***************************************************************************)
C10_MappingsHoldStore ==
    dispatched # <<>> =>
        /\ globalVars = store.globals
        /\ envVars = store.env

(***************************************************************************)
(* C12: resolve_dict returns a mapping with exactly the keys of its        *)
(* argument, each str value replaced by its resolved text, each value that *)
(* is no str kept as it is; a key is never resolved, also when it holds a  *)
(* token.                                                                  *)
(***************************************************************************)
C12_ResolveDict ==
    op = "resolve_dict" =>
        /\ DOMAIN ret = DOMAIN DataOf(text)
        /\ \A k \in DOMAIN DataOf(text) :
              ret[k] = IF DataOf(text)[k] = Int42 THEN Int42
                       ELSE Replaced(DataOf(text)[k], 1)

\* the text, which holds the token of a defined name, is a key and a value:
\* the value was resolved, the key and the int were not
C12_Witness ==
    /\ op = "resolve_dict"
    /\ \E c \in TokensOf(text) : Defined(strip(Run(text, c)))
    /\ text \in DOMAIN ret
    /\ ret[text] # text
    /\ ret[Key_h] = ret[text]
    /\ ret[Key_n] = Int42

(***************************************************************************)
(* C13: get_all_variables returns one mapping whose keys are the keys of   *)
(* the three mappings together and whose value for a name is the runtime   *)
(* value when the name is in the runtime mapping, else the environment     *)
(* value when it is in the environment mapping, else the global value.     *)
(***************************************************************************)
C13_AllVariables ==
    op = "get_all_variables" =>
        /\ DOMAIN ret =
              DOMAIN runtimeVars \cup DOMAIN envVars \cup DOMAIN globalVars
        /\ \A k \in DOMAIN ret : ret[k] = ScopeValue(k)

\* one name in all three scopes with a runtime value other than the
\* environment value, another name in the environment and global scopes only
\* with different values
C13_Witness ==
    /\ op = "get_all_variables"
    /\ \E k, j \in ScopeKeys :
          /\ k \in DOMAIN runtimeVars
          /\ k \in DOMAIN envVars
          /\ k \in DOMAIN globalVars
          /\ runtimeVars[k] # envVars[k].value
          /\ ret[k] = runtimeVars[k]
          /\ j \notin DOMAIN runtimeVars
          /\ j \in DOMAIN envVars
          /\ j \in DOMAIN globalVars
          /\ envVars[j].value # globalVars[j].value
          /\ ret[j] = envVars[j].value

(***************************************************************************)
(* C14: set_global_variables(m) and set_environment_variables(m) replace   *)
(* their mapping by m in one step: the mapping is then m, whatever its     *)
(* keys are, a lookup in that scope finds what m holds and nothing of the  *)
(* mapping before, and the other two mappings are as they were.            *)
(***************************************************************************)
C14_Replace ==
    /\ op' = "set_global_variables" =>
          /\ globalVars' = text'
          /\ envVars' = envVars
          /\ runtimeVars' = runtimeVars
    /\ op' = "set_environment_variables" =>
          /\ envVars' = text'
          /\ globalVars' = globalVars
          /\ runtimeVars' = runtimeVars

\* right after the step, with m as the mapping of its scope, a name that is
\* not shadowed resolves to what m holds for it, else to what the next scope
\* holds, else to its token
C14_Lookups ==
    /\ op = "set_global_variables" =>
          \A k \in ScopeKeys :
              (k \notin DOMAIN runtimeVars /\ k \notin DOMAIN envVars) =>
                  resolve(Token(k)) =
                      IF k \in DOMAIN text THEN text[k].value ELSE Token(k)
    /\ op = "set_environment_variables" =>
          \A k \in ScopeKeys :
              k \notin DOMAIN runtimeVars =>
                  resolve(Token(k)) =
                      IF k \in DOMAIN text THEN text[k].value
                      ELSE IF k \in DOMAIN globalVars THEN globalVars[k].value
                      ELSE Token(k)

C14_ReplacedWholesale == []C14_Lookups /\ [][C14_Replace]_vars

\* the global mapping was replaced by one with an empty key, a key that
\* holds a brace and a padded key, and no name of ScopeKeys is left in it
C14_Witness ==
    /\ op = "set_global_variables"
    /\ DOMAIN globalVars = {<<>>, Str_ra, Str_sa}
    /\ DOMAIN envVars = {Str_a}
    /\ DOMAIN runtimeVars = {Str_b}
    /\ resolve(Token(Str_a)) = envVars[Str_a].value

(***************************************************************************)
(* C15: clear_runtime empties the runtime mapping and leaves the global    *)
(* and the environment mapping as they were; a name defined in one of      *)
(* these two then resolves to its environment value, else its global value.*)
(***************************************************************************)
C15_Clear ==
    op' = "clear_runtime" =>
        /\ DOMAIN runtimeVars' = {}
        /\ globalVars' = globalVars
        /\ envVars' = envVars

\* right after the step a name of the environment or the global mapping
\* resolves to its environment value, else its global value
C15_Lookups ==
    op = "clear_runtime" =>
        \A k \in ScopeKeys :
            (k \in DOMAIN envVars \/ k \in DOMAIN globalVars) =>
                resolve(Token(k)) =
                    IF k \in DOMAIN envVars THEN envVars[k].value
                    ELSE globalVars[k].value

C15_ClearRuntimeOnly == []C15_Lookups /\ [][C15_Clear]_vars

\* after clear_runtime: no runtime entry, both other mappings with entries
C15_Witness ==
    /\ op = "clear_runtime"
    /\ DOMAIN runtimeVars = {}
    /\ DOMAIN envVars = ScopeKeys
    /\ DOMAIN globalVars = {Str_a}
    /\ resolve(Token(Str_a)) = envVars[Str_a].value

(***************************************************************************)
(* C16: the reading operations change no mapping; set_runtime_variable     *)
(* inserts or overwrites one entry; every step other than clear_runtime    *)
(* keeps each runtime entry, with its value unless set_runtime_variable    *)
(* overwrites it; and a runtime entry resolves to its value in every state.*)
(***************************************************************************)
ReadOps ==
    {"resolve", "resolve_dict", "get_unresolved_variables", "validate",
     "get_all_variables"}

\* every runtime entry resolves to its value
C16_Resolvable ==
    \A k \in DOMAIN runtimeVars : resolve(Token(k)) = runtimeVars[k]

C16_Step ==
    /\ op' \in ReadOps => UNCHANGED resolverVars
    /\ op' \in {"set_global_variables", "set_environment_variables"} =>
          runtimeVars' = runtimeVars
    /\ op' = "set_runtime_variable" =>
          /\ DOMAIN runtimeVars' = DOMAIN runtimeVars \cup {text'[1]}
          /\ runtimeVars'[text'[1]] = text'[2]
          /\ UNCHANGED <<globalVars, envVars>>
    /\ op' # "clear_runtime" =>
          \A k \in DOMAIN runtimeVars :
              /\ k \in DOMAIN runtimeVars'
              /\ \/ op' = "set_runtime_variable" /\ k = text'[1]
                 \/ runtimeVars'[k] = runtimeVars[k]

C16_RuntimePersists == []C16_Resolvable /\ [][C16_Step]_vars

\* validate finds a name resolved that only the runtime mapping defines,
\* with both runtime entries in place
C16_Witness ==
    /\ op = "validate"
    /\ text = Token(Str_a)
    /\ DOMAIN runtimeVars = ScopeKeys
    /\ Str_a \notin DOMAIN envVars
    /\ Str_a \notin DOMAIN globalVars
    /\ ret = <<TRUE, {}>>

(***************************************************************************)
(* C17: no operation of the resolver that reads ends in an exception, for  *)
(* any text, None included, and any mapping contents.                      *)
(***************************************************************************)
C17_NoException == raised = NoException

(***************************************************************************)
(* C18: validate(text) returns the pair of a flag and the names            *)
(* get_unresolved_variables(text) returns; the flag is true exactly when   *)
(* there is no such name; a text without a token gives (True, []).         *)
(***************************************************************************)
C18_Validate ==
    op = "validate" =>
        /\ ret[2] = get_unresolved_variables(text)
        /\ ret[1] = (ret[2] = {})
        /\ TokensOf(text) = {} => ret = <<TRUE, {}>>

\* one token resolved, one left: the flag is false and one name is returned
C18_Witness ==
    /\ op = "validate"
    /\ \E c, d \in TokensOf(text) :
          /\ Defined(strip(Run(text, c)))
          /\ ~Defined(strip(Run(text, d)))
          /\ ret = <<FALSE, {strip(Run(text, d))}>>

(***************************************************************************)
(* C11: at most one request is in flight.  In every state of the window at *)
(* most one config is with the executor, and then _is_sending is true; no  *)
(* step taken while _is_sending is true starts a request; _is_sending goes *)
(* from true to false only in a step in which a handler of the request in  *)
(* flight runs and takes it out of flight.                                 *)
(***************************************************************************)
C11_AtMostOne ==
    /\ Len(dispatched) <= 1
    /\ dispatched # <<>> => isSending

C11_Step ==
    /\ isSending => Len(dispatched') <= Len(dispatched)
    /\ (isSending /\ ~isSending') =>
          (dispatched # <<>> /\ dispatched' = Tail(dispatched))
    /\ (~isSending /\ isSending') => Len(dispatched') = Len(dispatched) + 1

C11_SingleInFlight == []C11_AtMostOne /\ [][C11_Step]_vars

\* the send button was pressed again while the request was in flight, and
\* there is still the one request
C11_Witness ==
    /\ isSending
    /\ barSending
    /\ cancelRequested
    /\ Len(dispatched) = 1

(***************************************************************************)
(* C19: once the user has requested cancellation of the request in flight, *)
(* that request is cancelled: it is no longer with the executor and the    *)
(* window is not sending.                                                  *)
(***************************************************************************)
C19_CancelStopsRequest ==
    cancelRequested => (~isSending /\ dispatched = <<>>)

(***************************************************************************)
(* C20: the call of the HTTP client carries the credential of the auth     *)
(* dict of the config.  basic: an auth object with the username and the    *)
(* password; bearer: the header Authorization with "Bearer " and the       *)
(* token; api_key: the key with the value, among the headers when add_to   *)
(* is "header" (or absent), among the query parameters when add_to is      *)
(* "query"; any other auth dict: headers, parameters and auth as without.  *)
(***************************************************************************)
AuthOf(config) == get(config.auth, "type", "None")

\* the headers execute sends for the config when it has no auth dict
PlainHeaders(config) == request_kwargs([config EXCEPT !.auth = NoAuth])["headers"]

C20_Basic ==
    AuthOf(dispatched[1]) = "basic" =>
        /\ "auth" \in DOMAIN sent
        /\ sent["auth"].username = get(dispatched[1].auth, "username", <<>>)
        /\ sent["auth"].password = get(dispatched[1].auth, "password", <<>>)
        /\ sent["headers"] = PlainHeaders(dispatched[1])

C20_Bearer ==
    AuthOf(dispatched[1]) = "bearer" =>
        /\ Authorization \in DOMAIN sent["headers"]
        /\ sent["headers"][Authorization] =
              Bearer \o <<SP>> \o get(dispatched[1].auth, "token", <<>>)
        /\ "auth" \notin DOMAIN sent

C20_ApiKeyHeader ==
    (/\ AuthOf(dispatched[1]) = "api_key"
     /\ get(dispatched[1].auth, "add_to", "header") = "header") =>
        /\ dispatched[1].auth.key \in DOMAIN sent["headers"]
        /\ sent["headers"][dispatched[1].auth.key] = dispatched[1].auth.value
        /\ "auth" \notin DOMAIN sent

C20_ApiKeyQuery ==
    (/\ AuthOf(dispatched[1]) = "api_key"
     /\ get(dispatched[1].auth, "add_to", "header") = "query") =>
        /\ dispatched[1].auth.key \in DOMAIN sent["params"]
        /\ sent["params"][dispatched[1].auth.key] = dispatched[1].auth.value

C20_Unknown ==
    AuthOf(dispatched[1]) \notin {"basic", "bearer", "api_key"} =>
        /\ sent["headers"] = PlainHeaders(dispatched[1])
        /\ sent["params"] = dispatched[1].params
        /\ "auth" \notin DOMAIN sent

\* as claimed: every scheme, api_key in the place add_to names
C20_CredentialCarried ==
    DOMAIN sent # {} =>
        /\ C20_Basic
        /\ C20_Bearer
        /\ C20_ApiKeyHeader
        /\ C20_ApiKeyQuery
        /\ C20_Unknown

\* what the code does for the schemes other than api_key with add_to "query"
C20_CarriedUnlessQuery ==
    DOMAIN sent # {} =>
        /\ C20_Basic
        /\ C20_Bearer
        /\ C20_ApiKeyHeader
        /\ C20_Unknown


(***************************************************************************)
(* C21.  Deleting a collection removes from the store the collection with  *)
(* all its contents: whenever a collection leaves the store, every         *)
(* collection beneath it, at any depth, and every request in it or in one  *)
(* of those leaves the store in the same step.                             *)
(* The code deletes the row and its requests; the sub-collections stay,    *)
(* as collections with no parent, and a later reload shows them.           *)
(***************************************************************************)
Contents(c) == {c} \cup Beneath(collections, c)

C21_DeleteRemovesContents ==
    [][\A c \in DOMAIN collections :
          c \notin DOMAIN collections' =>
             /\ \A d \in Contents(c) : d \notin DOMAIN collections'
             /\ \A r \in DOMAIN requests :
                   requests[r].collection_id \in Contents(c) =>
                      r \notin DOMAIN requests']_vars


(***************************************************************************)
(* C22.  After any sequence of add_history calls on a panel loaded with at *)
(* most 100 entries the panel holds at most 100 entries, the most recently *)
(* added ones, newest first; each add puts the new entry at the top and    *)
(* takes the overflow from the bottom.                                     *)
(***************************************************************************)
C22_Newest ==
    /\ Len(historyPanel) <= 100
    /\ Len(historyPanel) = IF Len(historyStore) < 100 THEN Len(historyStore) ELSE 100
    /\ \A i \in 1..Len(historyPanel) :
          historyPanel[i] = historyStore[Len(historyStore) + 1 - i]

C22_Add ==
    historyStore' # historyStore =>
       /\ historyPanel'[1] = historyStore'[Len(historyStore')]
       /\ \A i \in 2..Len(historyPanel') : historyPanel'[i] = historyPanel[i - 1]
       /\ Len(historyPanel') = IF Len(historyPanel) < 100
                               THEN Len(historyPanel) + 1 ELSE 100

\* C22: the panel holds the newest rows, at most 100, newest first, at every
\* moment, and each add puts the row on top and takes the overflow from below
C22_PanelHoldsNewest == []C22_Newest /\ [][C22_Add]_vars

\* a full panel from which adds have evicted the oldest entries
C22_Witness ==
    /\ Len(historyStore) = HistoryLimit + MaxAdds
    /\ Len(historyPanel) = 100
    /\ historyPanel[100].id = MaxAdds + 1
    /\ historyPanel[1].url = Https \o Str_b


(***************************************************************************)
(* C23.  The headers and the parameters of a dispatched request contain    *)
(* exactly the rows of the table that are enabled and have a non-empty     *)
(* key, each with its value after substitution; a disabled row contributes *)
(* neither its key nor its value.                                          *)
(* As stated: every such row is in the dict.  As the code has it: the dict *)
(* has one entry for each key of such rows, with the value of the last of  *)
(* them; an earlier enabled row of the same key is not in the request.     *)
(***************************************************************************)
Kept(rows) == {i \in DOMAIN rows : rows[i].enabled /\ rows[i].key # <<>>}

LastKept(rows, k) ==
    CHOOSE i \in Kept(rows) :
        /\ rows[i].key = k
        /\ \A j \in Kept(rows) : rows[j].key = k => j <= i

\* a disabled row brings nothing: its key is in the dict only when a kept row
\* has that key
NothingOfDisabled(rows, d) ==
    \A i \in DOMAIN rows :
        (~rows[i].enabled /\ rows[i].key \notin EnabledKeys(rows)) =>
            rows[i].key \notin DOMAIN d

EveryKeptRow(rows, d) ==
    /\ \A i \in Kept(rows) :
          rows[i].key \in DOMAIN d /\ d[rows[i].key] = resolve(rows[i].value)
    /\ \A k \in DOMAIN d : \E i \in Kept(rows) : rows[i].key = k
    /\ NothingOfDisabled(rows, d)

LastKeptRows(rows, d) ==
    /\ DOMAIN d = EnabledKeys(rows)
    /\ \A k \in DOMAIN d : d[k] = resolve(rows[LastKept(rows, k)].value)
    /\ NothingOfDisabled(rows, d)

C23_EveryEnabledRow ==
    [][(Len(dispatched') = Len(dispatched) + 1) =>
          LET config == dispatched'[Len(dispatched')]
          IN /\ EveryKeptRow(headers, config.headers)
             /\ EveryKeptRow(params, config.params)]_vars

\* C23, as the code has it: one entry per key of the enabled rows with a
\* non-empty key, with the value of the last of them, nothing of a disabled row
C23_LastEnabledRow ==
    [][(Len(dispatched') = Len(dispatched) + 1) =>
          LET config == dispatched'[Len(dispatched')]
          IN /\ LastKeptRows(headers, config.headers)
             /\ LastKeptRows(params, config.params)]_vars

\* a request in flight from a headers table with a second enabled row of the
\* key Content-Type and a parameters table with only a row of no key
C23_Witness ==
    /\ Len(dispatched) = 1
    /\ headers = DefaultHeaders \o <<KeyValueItem(ContentType, <<"t">>, TRUE)>>
    /\ params = <<KeyValueItem(<<>>, <<"e">>, TRUE)>>
    /\ DOMAIN dispatched[1].headers = {ContentType}
    /\ dispatched[1].headers[ContentType] = <<"t">>
    /\ DOMAIN dispatched[1].params = {}


(***************************************************************************)
(* C24.  After _send_request has started a request, when execute returns   *)
(* or raises, _is_sending becomes false again and the URL bar leaves the   *)
(* sending state: the window never stays in the sending state.             *)
(***************************************************************************)
C24_LeavesSending == (isSending \/ barSending) ~> (~isSending /\ ~barSending)

\* a request was sent, its response arrived and the window can send again
C24_Witness ==
    /\ ~isSending
    /\ ~barSending
    /\ dispatched = <<>>
    /\ Len(historyStore) = 1


(***************************************************************************)
(* C25.  When the URL the user entered resolves to a string that begins    *)
(* with http:// or https://, the URL dispatched by _send_request is that   *)
(* resolved string; the default scheme https:// is put in front only when  *)
(* the resolved URL has none.                                              *)
(* The code puts the scheme in front of the text as typed, before it       *)
(* resolves: a URL that starts with a token is dispatched with https://    *)
(* in front of whatever the token stands for.                              *)
(***************************************************************************)
HasScheme(u) == startswith(u, Http) \/ startswith(u, Https)

Referable(k) ==
    /\ k # <<>>
    /\ \A i \in 1..Len(k) : k[i] # RB
    /\ strip(k) = k

C27_CallerWritesUnseen ==
    [][op' = "caller" =>
          \A k \in ScopeKeys : resolve(Token(k))' = resolve(Token(k))]_vars


(***************************************************************************)
(* C28.  A history record is stored and added to the top of the history    *)
(* panel exactly once for each request whose response is received, and     *)
(* none is stored for a request that ends in an error or a cancellation:   *)
(* the step in which a request ends with its response shown adds one row,  *)
(* of that request, to the table and puts it on top of the panel, and no   *)
(* other step changes the table or the panel.                              *)
(***************************************************************************)
RequestEnds == Len(dispatched') = Len(dispatched) - 1

C28_Step ==
    IF RequestEnds /\ viewer' = Response
    THEN /\ Len(historyStore') = Len(historyStore) + 1
         /\ SubSeq(historyStore', 1, Len(historyStore)) = historyStore
         /\ historyStore'[Len(historyStore')].url = Head(dispatched).url
         /\ historyPanel'[1] = historyStore'[Len(historyStore')]
         /\ Tail(historyPanel') = historyPanel
    ELSE UNCHANGED <<historyStore, historyPanel>>

====
